---- MODULE Spec2Model ----
(***************************************************************************)
(* Model of the fraud-prediction service of src/app.py: two joblib         *)
(* artifacts loaded once at import time into three module globals, and two *)
(* Flask handlers, home (GET /) and predict (POST /predict).               *)
(*                                                                         *)
(* Conventions.                                                            *)
(*  - A Python str is a sequence of one-character strings.                 *)
(*  - A Python float is a fixed-point integer: the value times 100.        *)
(*  - A call of a library function yields [raised |-> e] when it raises    *)
(*    and a record without the field "raised" when it returns.             *)
(*  - The handlers write no shared state, so each one is one atomic        *)
(*    action; the library calls it makes are recorded, in order, in trace. *)
(***************************************************************************)
EXTENDS Integers, Sequences, FiniteSets, TLC

VARIABLES
    disk,              \* the two artifact files: path -> content
    model,             \* global model            (src/app.py:16)
    preprocessor,      \* global preprocessor     (src/app.py:17)
    RESOURCES_LOADED,  \* global RESOURCES_LOADED (src/app.py:18)
    pc,                \* "import" until load_resources has returned, then "serving"
    loads,             \* how many times load_resources has run
    loadCalls,         \* the joblib.load calls made so far, in order
    loadRaised,        \* whether load_resources let an exception escape
    atLoad,            \* the three globals as they were when load_resources returned
    req,               \* the request handled last
    resp,              \* its response
    trace,             \* the library calls the handler made for it, in order
    memo               \* an earlier POST /predict exchange, kept for comparison

vars == <<disk, model, preprocessor, RESOURCES_LOADED, pc, loads, loadCalls,
          loadRaised, atLoad, req, resp, trace, memo>>

----------------------------------------------------------------------------
(* Python values *)

None == [kind |-> "None", id |-> "None"]

Artifact(id) == [kind |-> "artifact", id |-> id]

Exc(type, msg) == [type |-> type, msg |-> msg]

Raised(r) == "raised" \in DOMAIN r

\* The exception classes that occur, each with its base classes (itself included).
Bases(type) ==
    CASE type = "ValueError"        -> {"ValueError", "Exception", "BaseException"}
      [] type = "TypeError"         -> {"TypeError", "Exception", "BaseException"}
      [] type = "KeyError"          -> {"KeyError", "LookupError", "Exception", "BaseException"}
      [] type = "AttributeError"    -> {"AttributeError", "Exception", "BaseException"}
      [] type = "FileNotFoundError" -> {"FileNotFoundError", "OSError", "Exception", "BaseException"}
      [] type = "BadRequest"        -> {"BadRequest", "HTTPException", "Exception", "BaseException"}
      [] OTHER                      -> {type, "BaseException"}

IsInstance(e, class) == class \in Bases(e.type)

\* str(e)
Str(e) == e.msg

----------------------------------------------------------------------------
(* The artifact files *)

PREPROCESSOR_PATH == "preprocessor (1).joblib"

MODEL_PATH == "smote_xgboost_model (1).joblib"

\* What a file can hold: nothing ("missing"), a pickle the installed
\* libraries cannot read ("incompatible"), or a fitted artifact.
Preprocessors == {"onehot_strict", "onehot_lenient"}

Models == {"xgb", "xgb_shape_mismatch", "xgb_no_proba"}

DiskStates ==
    { (PREPROCESSOR_PATH :> p) @@ (MODEL_PATH :> m) :
        p \in {"missing"} \cup Preprocessors,
        m \in {"incompatible"} \cup Models }

FixedDisk == (PREPROCESSOR_PATH :> "onehot_lenient") @@ (MODEL_PATH :> "xgb")

joblib_load(d, path) ==
    CASE d[path] = "missing" ->
           [raised |-> Exc("FileNotFoundError", <<"No such file or directory: ", path>>)]
      [] d[path] = "incompatible" ->
           [raised |-> Exc("AttributeError", <<"Can't get attribute on module">>)]
      [] OTHER -> [value |-> Artifact(d[path])]

----------------------------------------------------------------------------
(* load_resources *)

LoadCall(path, out) == [path |-> path, out |-> out]

LoadResult(pp, m, loaded, calls, escaped) ==
    [preprocessor |-> pp, model |-> m, RESOURCES_LOADED |-> loaded,
     calls |-> calls, raised |-> escaped]

\* Faulty variant of load_resources_result: the flag is raised before the second load is known to succeed.
load_resources_early_flag(d, pp0, m0) ==
    LET r1 == joblib_load(d, PREPROCESSOR_PATH)
        r2 == joblib_load(d, MODEL_PATH)
        c1 == <<LoadCall(PREPROCESSOR_PATH, r1)>>
        c2 == Append(c1, LoadCall(MODEL_PATH, r2))
    IN  IF Raised(r1) THEN LoadResult(pp0, m0, FALSE, c1, FALSE)
        ELSE IF Raised(r2) THEN LoadResult(r1.value, m0, TRUE, c2, FALSE)
        ELSE LoadResult(r1.value, r2.value, TRUE, c2, FALSE)

\* Faulty variant of load_resources_result: the model is loaded before the
\* preprocessor.
load_resources_model_first(d, pp0, m0) ==
    LET r1 == joblib_load(d, MODEL_PATH)
        r2 == joblib_load(d, PREPROCESSOR_PATH)
        c1 == <<LoadCall(MODEL_PATH, r1)>>
        c2 == Append(c1, LoadCall(PREPROCESSOR_PATH, r2))
    IN  IF Raised(r1) THEN LoadResult(pp0, m0, FALSE, c1, FALSE)
        ELSE IF Raised(r2) THEN LoadResult(pp0, r1.value, FALSE, c2, FALSE)
        ELSE LoadResult(r2.value, r1.value, TRUE, c2, FALSE)

\* The globals and the joblib.load calls after load_resources has run on
\* disk d with the globals pp0, m0; raised tells whether an exception left it.
load_resources_result(d, pp0, m0) ==
    LET r1 == joblib_load(d, PREPROCESSOR_PATH)
        r2 == joblib_load(d, MODEL_PATH)
        c1 == <<LoadCall(PREPROCESSOR_PATH, r1)>>
        c2 == Append(c1, LoadCall(MODEL_PATH, r2))
    IN  IF Raised(r1)
        THEN \* except Exception: the preprocessor assignment never happened
             LoadResult(pp0, m0, FALSE, c1, ~IsInstance(r1.raised, "Exception"))
        ELSE IF Raised(r2)
        THEN \* except Exception: preprocessor is assigned, model is not
             LoadResult(r1.value, m0, FALSE, c2, ~IsInstance(r2.raised, "Exception"))
        ELSE LoadResult(r1.value, r2.value, TRUE, c2, FALSE)

----------------------------------------------------------------------------
(* Request bodies *)

Digits == {"0", "1", "2", "3", "4", "5", "6", "7", "8", "9"}

JStr(chars) == [t |-> "str", s |-> chars]

JNum(hundredths) == [t |-> "num", v |-> hundredths]

JNull == [t |-> "null"]

AmountValues ==
    { JStr(<<"1", "2", ".", "5", "0">>),   \* "12.50", what the form sends
      JStr(<<" ", "7", "5", " ">>),        \* " 75 "
      JStr(<<"a", "b", "c">>),             \* "abc"
      JStr(<<>>),                          \* ""
      JNum(9990),                          \* 99.9
      JNull }                              \* null

Delhi == JStr(<<"D", "e", "l", "h", "i">>)

Goa == JStr(<<"G", "o", "a">>)

Visa == JStr(<<"V", "i", "s", "a">>)

SBI == JStr(<<"S", "B", "I">>)

Groceries == JStr(<<"G", "r", "o", "c", "e", "r", "i", "e", "s">>)

Mumbai == JStr(<<"M", "u", "m", "b", "a", "i">>)

RequestKeys == {"amount", "state", "card_type", "bank", "category", "location"}

FullObject(a, s) ==
    ("amount" :> a) @@ ("state" :> s) @@ ("card_type" :> Visa) @@ ("bank" :> SBI)
    @@ ("category" :> Groceries) @@ ("location" :> Mumbai) @@ ("note" :> Goa)

FullObjects ==
    {FullObject(a, Delhi) : a \in AmountValues}
    \cup {FullObject(JStr(<<"1", "2", ".", "5", "0">>), Goa)}

\* The objects from which a single key is left out: a good amount, one that
\* is no number, and null.
BaseObjects ==
    {FullObject(a, Delhi) :
        a \in {JStr(<<"1", "2", ".", "5", "0">>), JStr(<<"a", "b", "c">>), JNull}}

Restrict(f, K) == [k \in K |-> f[k]]

Objects ==
    {Restrict(o, K) : o \in FullObjects, K \in {RequestKeys, RequestKeys \cup {"note"}}}
    \cup {Restrict(o, RequestKeys \ {k}) : o \in BaseObjects, k \in RequestKeys}
    \cup {Restrict(FullObject(JNull, Delhi), {})}

\* A body is text that is not JSON, a JSON array, JSON null, or a JSON object.
Bodies ==
    {[json |-> "invalid"], [json |-> "array"], [json |-> "null"]}
    \cup {[json |-> "object", obj |-> o] : o \in Objects}

NoBody == [json |-> "none"]

----------------------------------------------------------------------------
(* Library calls of the predict handler *)

\* request.get_json(force=True)
get_json(body) ==
    CASE body.json = "invalid" ->
           [raised |-> Exc("BadRequest", <<"400 Bad Request: Failed to decode JSON object">>)]
      [] body.json = "array"  -> [data |-> [type |-> "list"]]
      [] body.json = "null"   -> [data |-> [type |-> "NoneType"]]
      [] OTHER                -> [data |-> [type |-> "dict", items |-> body.obj]]

\* data[key]
Subscript(data, key) ==
    CASE data.type = "list" ->
           [raised |-> Exc("TypeError", <<"list indices must be integers or slices, not str">>)]
      [] data.type = "NoneType" ->
           [raised |-> Exc("TypeError", <<"'NoneType' object is not subscriptable">>)]
      [] OTHER ->
           IF key \in DOMAIN data.items
           THEN [value |-> data.items[key]]
           ELSE [raised |-> Exc("KeyError", <<"'", key, "'">>)]

\* str.strip() on the blanks float() ignores
RECURSIVE LStrip(_)
LStrip(s) == IF s # <<>> /\ Head(s) = " " THEN LStrip(Tail(s)) ELSE s

RECURSIVE RStrip(_)
RStrip(s) ==
    IF s # <<>> /\ s[Len(s)] = " " THEN RStrip(SubSeq(s, 1, Len(s) - 1)) ELSE s

DigitValue(c) ==
    CASE c = "0" -> 0 [] c = "1" -> 1 [] c = "2" -> 2 [] c = "3" -> 3 [] c = "4" -> 4
      [] c = "5" -> 5 [] c = "6" -> 6 [] c = "7" -> 7 [] c = "8" -> 8 [] OTHER -> 9

RECURSIVE DigitsValue(_)
DigitsValue(s) ==
    IF s = <<>> THEN 0
    ELSE 10 * DigitsValue(SubSeq(s, 1, Len(s) - 1)) + DigitValue(s[Len(s)])

\* float(chars) for the plain decimal notation [blanks][sign]digits[.digits][blanks]
\* with at most two fraction digits; anything else drawn here is a ValueError.
ParseFloat(chars) ==
    LET stripped == RStrip(LStrip(chars))
        signed   == stripped # <<>> /\ Head(stripped) \in {"+", "-"}
        mant     == IF signed THEN Tail(stripped) ELSE stripped
        dots     == {i \in 1..Len(mant) : mant[i] = "."}
        wellFormed ==
            /\ \A i \in 1..Len(mant) : mant[i] \in Digits \cup {"."}
            /\ \E i \in 1..Len(mant) : mant[i] \in Digits
            /\ Cardinality(dots) <= 1
        dot      == IF dots = {} THEN Len(mant) + 1 ELSE CHOOSE i \in dots : TRUE
        whole    == SubSeq(mant, 1, dot - 1)
        frac     == SubSeq(mant, dot + 1, Len(mant))
        frac2    == SubSeq(frac \o <<"0", "0">>, 1, 2)
        mag      == 100 * DigitsValue(whole) + DigitsValue(frac2)
    IN  IF wellFormed
        THEN [value |-> IF signed /\ Head(stripped) = "-" THEN 0 - mag ELSE mag]
        ELSE [raised |-> Exc("ValueError", <<"could not convert string to float">>)]

\* float(v)
PyFloat(v) ==
    CASE v.t = "str" -> ParseFloat(v.s)
      [] v.t = "num" -> [value |-> v.v]
      [] OTHER ->
           [raised |-> Exc("TypeError",
                <<"float() argument must be a string or a real number, not 'NoneType'">>)]

\* preprocessor.transform(row): the strict encoder rejects a category it was
\* not fitted on, the lenient one encodes it as all zeros.
KnownStates == {Delhi}

transform(pp, row) ==
    IF pp = None
    THEN [raised |-> Exc("AttributeError",
              <<"'NoneType' object has no attribute 'transform'">>)]
    ELSE IF pp.id = "onehot_strict" /\ row["State"] \notin KnownStates
    THEN [raised |-> Exc("ValueError", <<"Found unknown categories in column 0 during transform">>)]
    ELSE [X |-> [scaled |-> row["Transaction Amount (INR)"],
                 onehot |-> IF row["State"] \in KnownStates THEN 1 ELSE 0]]

\* model.predict(X): the label of each row
model_predict(m, X) ==
    IF m = None
    THEN [raised |-> Exc("AttributeError",
              <<"'NoneType' object has no attribute 'predict'">>)]
    ELSE IF m.id = "xgb_shape_mismatch"
    THEN [raised |-> Exc("ValueError", <<"Feature shape mismatch">>)]
    ELSE [labels |-> <<IF X.scaled >= 5000 \/ X.onehot = 0 THEN 1 ELSE 0>>]

\* model.predict_proba(X): per row, the probabilities (in percent) of class 0 and class 1
model_predict_proba(m, X) ==
    IF m = None
    THEN [raised |-> Exc("AttributeError",
              <<"'NoneType' object has no attribute 'predict_proba'">>)]
    ELSE IF m.id = "xgb_shape_mismatch"
    THEN [raised |-> Exc("ValueError", <<"Feature shape mismatch">>)]
    ELSE IF m.id = "xgb_no_proba"
    THEN [raised |-> Exc("AttributeError", <<"predict_proba is not available">>)]
    ELSE [proba |-> <<IF X.scaled >= 5000 \/ X.onehot = 0 THEN <<8, 92>> ELSE <<97, 3>>>>]

Call(op, arg, out) == [op |-> op, arg |-> arg, out |-> out]

----------------------------------------------------------------------------
(* The predict handler *)

NotLoadedError == <<"Model resources not fully loaded on server.">>

InvalidAmountError == <<"Invalid format for Transaction Amount. Must be a number.">>

PredictionErrorPrefix == "An error occurred during prediction: "

Reply(status, body, calls, escaped) ==
    [status |-> status, body |-> body, trace |-> calls, escaped |-> escaped]

\* Faulty variant of resources_missing: only the preprocessor is looked at.
resources_missing_pp_only(mdl, pp, loaded) == pp = None

\* if not RESOURCES_LOADED or model is None or preprocessor is None
resources_missing(mdl, pp, loaded) == ~loaded \/ mdl = None \/ pp = None

\* An exception no except clause catches leaves the handler; Flask answers
\* 500 with its own error page.
Unhandled(e, calls) == Reply(500, [page |-> "Internal Server Error"], calls, TRUE)

\* Faulty variant of OnException: except (ValueError, KeyError).
OnException_narrow(e, calls) ==
    IF IsInstance(e, "ValueError") \/ IsInstance(e, "KeyError")
    THEN Reply(500, [error |-> <<PredictionErrorPrefix>> \o Str(e)], calls, FALSE)
    ELSE Unhandled(e, calls)

\* except Exception as e: the 500 reply with the message of e
OnException(e, calls) ==
    IF IsInstance(e, "Exception")
    THEN Reply(500, [error |-> <<PredictionErrorPrefix>> \o Str(e)], calls, FALSE)
    ELSE Unhandled(e, calls)

\* except ValueError around the float conversion; every other exception goes
\* on to the outer except clause
OnCoercionException(e, calls) ==
    IF IsInstance(e, "ValueError")
    THEN Reply(400, [error |-> InvalidAmountError], calls, FALSE)
    ELSE OnException(e, calls)

\* The keys read for the row, in the order the dict literal reads them, and
\* the column each one fills.
RowKeys == <<"amount", "state", "card_type", "bank", "category", "location">>

RowColumns ==
    <<"Transaction Amount (INR)", "State", "Card Type", "Bank",
      "Transaction Category", "Merchant Location">>

SwappedColumns ==
    <<"Transaction Amount (INR)", "Card Type", "State", "Bank",
      "Transaction Category", "Merchant Location">>

RowFrom(items, columns) ==
    LET absent == {i \in 1..Len(RowKeys) : RowKeys[i] \notin DOMAIN items}
    IN  IF absent # {}
        THEN LET i == CHOOSE n \in absent : \A o \in absent : n <= o
             IN  [raised |-> Exc("KeyError", <<"'", RowKeys[i], "'">>)]
        ELSE [row |-> [c \in {columns[i] : i \in 1..Len(columns)} |->
                         items[RowKeys[CHOOSE i \in 1..Len(columns) : columns[i] = c]]]]

\* Faulty variant of build_row: state and card_type fill each other's column.
build_row_swapped(items) == RowFrom(items, SwappedColumns)

\* pd.DataFrame([{...}]): the single row
build_row(items) == RowFrom(items, RowColumns)

\* Faulty variant of predict_handler: the probability of class 0 is returned.
predict_handler_class0(body, mdl, pp, loaded) ==
    LET j  == get_json(body)
        a  == Subscript(j.data, "amount")
        f  == PyFloat(a.value)
        r  == build_row([j.data.items EXCEPT !["amount"] = f.value])
        x  == transform(pp, r.row)
        p  == model_predict(mdl, x.X)
        q  == model_predict_proba(mdl, x.X)
        t1 == <<Call("get_json", [body |-> body], j)>>
        t2 == Append(t1, Call("float", [v |-> a.value], f))
        t3 == Append(t2, Call("transform", [row |-> r.row], x))
        t4 == Append(t3, Call("predict", [X |-> x.X], p))
        t5 == Append(t4, Call("predict_proba", [X |-> x.X], q))
    IN  CASE resources_missing(mdl, pp, loaded) ->
               Reply(500, [error |-> NotLoadedError], <<>>, FALSE)
          [] OTHER ->
             IF Raised(j) THEN OnException(j.raised, t1)
             ELSE IF Raised(a) THEN OnCoercionException(a.raised, t1)
             ELSE IF Raised(f) THEN OnCoercionException(f.raised, t2)
             ELSE IF Raised(r) THEN OnException(r.raised, t2)
             ELSE IF Raised(x) THEN OnException(x.raised, t3)
             ELSE IF Raised(p) THEN OnException(p.raised, t4)
             ELSE IF Raised(q) THEN OnException(q.raised, t5)
             ELSE Reply(200, [prediction  |-> p.labels[1],
                              probability |-> q.proba[1][1]], t5, FALSE)

\* The reply of predict to a request with this body when the globals hold
\* mdl, pp, loaded; together with the library calls made.
predict_handler(body, mdl, pp, loaded) ==
    LET j  == get_json(body)
        a  == Subscript(j.data, "amount")
        f  == PyFloat(a.value)
        r  == build_row([j.data.items EXCEPT !["amount"] = f.value])
        x  == transform(pp, r.row)
        p  == model_predict(mdl, x.X)
        q  == model_predict_proba(mdl, x.X)
        t1 == <<Call("get_json", [body |-> body], j)>>
        t2 == Append(t1, Call("float", [v |-> a.value], f))
        t3 == Append(t2, Call("transform", [row |-> r.row], x))
        t4 == Append(t3, Call("predict", [X |-> x.X], p))
        t5 == Append(t4, Call("predict_proba", [X |-> x.X], q))
    IN  CASE resources_missing(mdl, pp, loaded) ->
               Reply(500, [error |-> NotLoadedError], <<>>, FALSE)
          [] OTHER ->
             IF Raised(j) THEN OnException(j.raised, t1)
             ELSE IF Raised(a) THEN OnCoercionException(a.raised, t1)
             ELSE IF Raised(f) THEN OnCoercionException(f.raised, t2)
             ELSE IF Raised(r) THEN OnException(r.raised, t2)
             ELSE IF Raised(x) THEN OnException(x.raised, t3)
             ELSE IF Raised(p) THEN OnException(p.raised, t4)
             ELSE IF Raised(q) THEN OnException(q.raised, t5)
             ELSE Reply(200, [prediction  |-> p.labels[1],
                              probability |-> q.proba[1][2]], t5, FALSE)

\* The reply of home: the error template or the form page.
home_handler(loaded) ==
    IF ~loaded
    THEN [status |-> 200,
          body |-> [page |-> "error.html",
                    message |-> <<"Server Error: Model failed to load. Please check logs.">>]]
    ELSE [status |-> 200, body |-> [page |-> "prediction-form"]]

----------------------------------------------------------------------------
(* The state machine *)

Globals == [model |-> model, preprocessor |-> preprocessor,
            RESOURCES_LOADED |-> RESOURCES_LOADED]

NoRequest == [route |-> "none", body |-> NoBody]

NoResponse == [status |-> 0, body |-> [none |-> TRUE], escaped |-> FALSE]

Init ==
    /\ disk \in DiskStates
    /\ model = None
    /\ preprocessor = None
    /\ RESOURCES_LOADED = FALSE
    /\ pc = "import"
    /\ loads = 0
    /\ loadCalls = <<>>
    /\ loadRaised = FALSE
    /\ atLoad = [model |-> None, preprocessor |-> None, RESOURCES_LOADED |-> FALSE]
    /\ req = NoRequest
    /\ resp = NoResponse
    /\ trace = <<>>
    /\ memo = [set |-> FALSE, req |-> NoRequest, resp |-> NoResponse]

\* with app.app_context(): load_resources()
load_resources ==
    /\ pc = "import"
    /\ LET r == load_resources_result(disk, preprocessor, model)
       IN  /\ preprocessor' = r.preprocessor
           /\ model' = r.model
           /\ RESOURCES_LOADED' = r.RESOURCES_LOADED
           /\ loadCalls' = loadCalls \o r.calls
           /\ loadRaised' = r.raised
           /\ atLoad' = [model |-> r.model, preprocessor |-> r.preprocessor,
                         RESOURCES_LOADED |-> r.RESOURCES_LOADED]
    /\ loads' = loads + 1
    /\ pc' = "serving"
    /\ UNCHANGED <<disk, req, resp, trace, memo>>

\* GET /
home ==
    /\ pc = "serving"
    /\ LET r == home_handler(RESOURCES_LOADED)
       IN  /\ req' = [route |-> "/", body |-> NoBody]
           /\ resp' = [status |-> r.status, body |-> r.body, escaped |-> FALSE]
    /\ trace' = <<>>
    /\ UNCHANGED <<disk, model, preprocessor, RESOURCES_LOADED, pc, loads,
                   loadCalls, loadRaised, atLoad, memo>>

\* The exchange handled last, when it was a POST /predict, may be remembered.
Remember(keep) ==
    IF keep /\ req.route = "/predict"
    THEN [set |-> TRUE, req |-> req, resp |-> resp]
    ELSE memo

\* Faulty variant of predict: a failed prediction marks the resources as not loaded.
predict_clears_flag ==
    /\ pc = "serving"
    /\ \E body \in Bodies :
         \E r \in {predict_handler(body, model, preprocessor, RESOURCES_LOADED)} :
             /\ req' = [route |-> "/predict", body |-> body]
             /\ resp' = [status |-> r.status, body |-> r.body, escaped |-> r.escaped]
             /\ trace' = r.trace
             /\ RESOURCES_LOADED' = (RESOURCES_LOADED /\ r.status # 500)
             /\ \E keep \in BOOLEAN : memo' = Remember(keep)
    /\ UNCHANGED <<disk, model, preprocessor, pc, loads, loadCalls, loadRaised,
                   atLoad>>

\* Faulty variant of predict: a request that finds the resources missing loads them again.
predict_reloading ==
    /\ pc = "serving"
    /\ \E l \in {IF resources_missing(model, preprocessor, RESOURCES_LOADED)
                 THEN load_resources_result(disk, preprocessor, model)
                 ELSE LoadResult(preprocessor, model, RESOURCES_LOADED, <<>>, FALSE)} :
       \E body \in Bodies :
         \E r \in {predict_handler(body, l.model, l.preprocessor, l.RESOURCES_LOADED)} :
             /\ req' = [route |-> "/predict", body |-> body]
             /\ resp' = [status |-> r.status, body |-> r.body, escaped |-> r.escaped]
             /\ trace' = r.trace
             /\ model' = l.model
             /\ preprocessor' = l.preprocessor
             /\ RESOURCES_LOADED' = l.RESOURCES_LOADED
             /\ \E keep \in BOOLEAN : memo' = Remember(keep)
    /\ UNCHANGED <<disk, pc, loads, loadCalls, loadRaised, atLoad>>

\* Faulty variant of predict: the last successful prediction is served again to the
\* next request with the same state, card type, bank, category and location.
predict_cached ==
    /\ pc = "serving"
    /\ \E body \in Bodies :
         \E r \in {predict_handler(body, model, preprocessor, RESOURCES_LOADED)} :
             /\ req' = [route |-> "/predict", body |-> body]
             /\ IF /\ req.route = "/predict"
                   /\ resp.status = 200
                   /\ r.status = 200
                   /\ \A k \in RequestKeys \ {"amount"} :
                          body.obj[k] = req.body.obj[k]
                THEN resp' = resp
                ELSE resp' = [status |-> r.status, body |-> r.body,
                              escaped |-> r.escaped]
             /\ trace' = r.trace
             /\ \E keep \in BOOLEAN : memo' = Remember(keep)
    /\ UNCHANGED <<disk, model, preprocessor, RESOURCES_LOADED, pc, loads,
                   loadCalls, loadRaised, atLoad>>

predict ==
    /\ pc = "serving"
    /\ \E body \in Bodies :
         \E r \in {predict_handler(body, model, preprocessor, RESOURCES_LOADED)} :
             /\ req' = [route |-> "/predict", body |-> body]
             /\ resp' = [status |-> r.status, body |-> r.body, escaped |-> r.escaped]
             /\ trace' = r.trace
             /\ \E keep \in BOOLEAN : memo' = Remember(keep)
    /\ UNCHANGED <<disk, model, preprocessor, RESOURCES_LOADED, pc, loads,
                   loadCalls, loadRaised, atLoad>>

\* The training script is run again while the server is up and writes
\* compatible artifact files.
fix_model ==
    /\ pc = "serving"
    /\ disk # FixedDisk
    /\ disk' = FixedDisk
    /\ UNCHANGED <<model, preprocessor, RESOURCES_LOADED, pc, loads, loadCalls,
                   loadRaised, atLoad, req, resp, trace, memo>>

Next == load_resources \/ home \/ predict \/ fix_model

Spec == Init /\ [][Next]_vars

----------------------------------------------------------------------------
(* Vocabulary of the properties *)

IsPredict == req.route = "/predict"

IsObject == req.body.json = "object"

HasKeys(K) == IsObject /\ K \subseteq DOMAIN req.body.obj

MissingKey == IsObject /\ ~(RequestKeys \subseteq DOMAIN req.body.obj)

ResourcesReady == RESOURCES_LOADED /\ model # None /\ preprocessor # None

AmountConverts == HasKeys({"amount"}) /\ ~Raised(PyFloat(req.body.obj["amount"]))

AmountFails == HasKeys({"amount"}) /\ Raised(PyFloat(req.body.obj["amount"]))

AmountValueError ==
    AmountFails /\ IsInstance(PyFloat(req.body.obj["amount"]).raised, "ValueError")

CallsOf(op) == {i \in 1..Len(trace) : trace[i].op = op}

ArtifactCalls == CallsOf("transform") \cup CallsOf("predict") \cup CallsOf("predict_proba")

NotLoadedReply(r) == r.status = 500 /\ r.body = [error |-> NotLoadedError]

InvalidAmountReply(r) == r.status = 400 /\ r.body = [error |-> InvalidAmountError]

PredictionErrorReply(r) ==
    /\ r.status = 500
    /\ DOMAIN r.body = {"error"}
    /\ Head(r.body.error) = PredictionErrorPrefix

\* The row the request's fields call for.
ExpectedRow ==
    ("Transaction Amount (INR)" :> PyFloat(req.body.obj["amount"]).value)
    @@ ("State" :> req.body.obj["state"])
    @@ ("Card Type" :> req.body.obj["card_type"])
    @@ ("Bank" :> req.body.obj["bank"])
    @@ ("Transaction Category" :> req.body.obj["category"])
    @@ ("Merchant Location" :> req.body.obj["location"])

----------------------------------------------------------------------------
(* C1 *)

\* C1: a POST /predict handled while the resources are loaded, whose body is
\* an object with the six keys and an amount float() accepts, and for which
\* transform, predict and predict_proba all return, is answered 200 with
\* exactly the keys prediction (the label predict returned) and probability
\* (the class-1 value predict_proba returned).
C1_SuccessReply ==
    ( /\ IsPredict
      /\ RESOURCES_LOADED
      /\ HasKeys(RequestKeys)
      /\ AmountConverts
      /\ \A i \in ArtifactCalls : ~Raised(trace[i].out) )
    => /\ resp.status = 200
       /\ DOMAIN resp.body = {"prediction", "probability"}
       /\ \E i \in CallsOf("predict") :
              resp.body.prediction = trace[i].out.labels[1]
       /\ \E i \in CallsOf("predict_proba") :
              resp.body.probability = trace[i].out.proba[1][2]

C1_Witness ==
    /\ IsPredict
    /\ resp.status = 200
    /\ resp.body.prediction = 1
    /\ resp.body.probability = 92
    /\ "note" \in DOMAIN req.body.obj

----------------------------------------------------------------------------
(* C2 *)

\* C2: when RESOURCES_LOADED is false, or model is None, or preprocessor is
\* None, every POST /predict is answered 500 with the not-loaded error,
\* whatever its body, and neither get_json nor any artifact is called.
C2_NullResourceGuard ==
    ( /\ IsPredict
      /\ (~RESOURCES_LOADED \/ model = None \/ preprocessor = None) )
    => /\ NotLoadedReply(resp)
       /\ trace = <<>>

C2_Witness ==
    /\ IsPredict
    /\ req.body.json = "invalid"
    /\ ~RESOURCES_LOADED
    /\ preprocessor # None
    /\ model = None
    /\ NotLoadedReply(resp)

----------------------------------------------------------------------------
(* C3 *)

\* C3: a POST /predict handled while the resources are loaded whose object
\* holds an amount float() does not accept is answered 400 with the
\* invalid-amount error, and no artifact is called.
C3_CoercionGuard ==
    (IsPredict /\ RESOURCES_LOADED /\ AmountFails)
    => /\ InvalidAmountReply(resp)
       /\ ArtifactCalls = {}

----------------------------------------------------------------------------
(* C4 *)

\* C4: load_resources runs exactly once, before any request is handled, and
\* after any sequence of requests the three globals have the values they had
\* when load_resources returned.
C4_LoadedOnceThenFrozen ==
    /\ loads <= 1
    /\ (pc = "serving") <=> (loads = 1)
    /\ (req.route # "none" \/ memo.set) => loads = 1
    /\ pc = "serving" => Globals = atLoad

C4_Witness ==
    /\ loads = 1
    /\ memo.set
    /\ memo.resp.status = 400
    /\ IsPredict
    /\ PredictionErrorReply(resp)
    /\ disk = FixedDisk
    /\ Globals = atLoad

----------------------------------------------------------------------------
(* C5 *)

LoadFailed == \E i \in 1..Len(loadCalls) : Raised(loadCalls[i].out)

\* C5: when loading either artifact fails at startup, load_resources still
\* returns, with RESOURCES_LOADED false, and the flag stays false: from then
\* on every POST /predict gets the not-loaded 500 and every GET / the error
\* page, also after the artifact files have been repaired.
C5_NoRecovery ==
    (pc = "serving" /\ LoadFailed)
    => /\ ~loadRaised
       /\ ~atLoad.RESOURCES_LOADED
       /\ ~RESOURCES_LOADED
       /\ loads = 1
       /\ IsPredict => (NotLoadedReply(resp) /\ trace = <<>>)
       /\ memo.set => NotLoadedReply(memo.resp)
       /\ req.route = "/" => resp.body.page = "error.html"

C5_Witness ==
    /\ pc = "serving"
    /\ LoadFailed
    /\ disk = FixedDisk
    /\ memo.set
    /\ IsPredict
    /\ HasKeys(RequestKeys)
    /\ NotLoadedReply(resp)

----------------------------------------------------------------------------
(* C6 *)

\* C6: with the loaded artifacts fixed, two POST /predict requests with the
\* same body get the same status and body, whatever was handled in between.
C6_SameBodySameReply ==
    (memo.set /\ IsPredict /\ memo.req.body = req.body) => memo.resp = resp

C6_Witness ==
    /\ memo.set
    /\ IsPredict
    /\ memo.req.body = req.body
    /\ resp.status = 200
    /\ memo.resp = resp

----------------------------------------------------------------------------
(* C7 *)

PassesGuardAndCoercion == IsPredict /\ ResourcesReady /\ AmountConverts

\* transform is called exactly once, on the six-column row of the request.
TransformOnceOnRow ==
    /\ Cardinality(CallsOf("transform")) = 1
    /\ \A i \in CallsOf("transform") :
          /\ DOMAIN trace[i].arg.row = {RowColumns[c] : c \in 1..Len(RowColumns)}
          /\ trace[i].arg.row = ExpectedRow

\* Every call of the model comes after a transform call that returned, and is
\* on that call's output; predict_proba comes after a predict that returned.
ModelOnlyOnTransformed ==
    /\ \A i \in CallsOf("predict") \cup CallsOf("predict_proba") :
          \E j \in CallsOf("transform") :
              /\ j < i
              /\ ~Raised(trace[j].out)
              /\ trace[i].arg.X = trace[j].out.X
    /\ \A i \in CallsOf("predict_proba") :
          \E j \in CallsOf("predict") : j < i /\ ~Raised(trace[j].out)
    /\ Cardinality(CallsOf("predict")) <= 1
    /\ Cardinality(CallsOf("predict_proba")) <= 1

\* The row is built and sent through transform once; predict is called once
\* transform has returned and predict_proba once predict has returned, both
\* on the output of transform.
RunsPipeline ==
    /\ TransformOnceOnRow
    /\ \A i \in CallsOf("transform") :
          Cardinality(CallsOf("predict")) = (IF Raised(trace[i].out) THEN 0 ELSE 1)
    /\ \A i \in CallsOf("predict") :
          Cardinality(CallsOf("predict_proba")) = (IF Raised(trace[i].out) THEN 0 ELSE 1)
    /\ ModelOnlyOnTransformed

\* C7 as stated: every POST /predict that passes the resource guard and the
\* amount coercion builds the six-column row, calls transform exactly once on
\* it, and only afterwards calls predict and then predict_proba, both on the
\* output of that transform.
C7_EveryRequestRunsPipeline == PassesGuardAndCoercion => RunsPipeline

\* C7 amended: the same of every POST /predict that passes the resource guard
\* and the amount coercion and holds the keys state, card_type, bank,
\* category and location; a request that lacks one of them builds no row and
\* calls no artifact. The model is never called on untransformed input nor
\* before transform has returned.
C7_PipelineOrder ==
    /\ (PassesGuardAndCoercion /\ HasKeys(RequestKeys)) => RunsPipeline
    /\ (PassesGuardAndCoercion /\ MissingKey) => ArtifactCalls = {}
    /\ IsPredict => ModelOnlyOnTransformed

C7_Witness ==
    /\ PassesGuardAndCoercion
    /\ "note" \in DOMAIN req.body.obj
    /\ req.body.obj["state"] = Goa
    /\ TransformOnceOnRow
    /\ Cardinality(CallsOf("predict_proba")) = 1
    /\ resp.status = 200

----------------------------------------------------------------------------
(* C8 *)

\* One of the three outcomes, and no exception leaves the handler.
OneOfThreeOutcomes ==
    /\ ~resp.escaped
    /\ \/ resp.status = 200 /\ DOMAIN resp.body = {"prediction", "probability"}
       \/ InvalidAmountReply(resp)
       \/ resp.status = 500 /\ DOMAIN resp.body = {"error"}

ArtifactRaised == \E i \in ArtifactCalls : Raised(trace[i].out)

\* C8 as stated: every POST /predict ends 200, 400 or 500 with an error body
\* and no exception leaves the handler; once the guard has passed, a body
\* that is no JSON or no object, a request missing any of the six keys, and
\* any exception of transform, predict or predict_proba yield the 500
\* prediction error.
C8_EveryFailureIs500 ==
    IsPredict
    => /\ OneOfThreeOutcomes
       /\ (ResourcesReady /\ (~IsObject \/ MissingKey \/ ArtifactRaised))
             => PredictionErrorReply(resp)

\* C8 amended: as stated, except that a request missing some of state,
\* card_type, bank, category, location whose amount is present and rejected
\* by float() with a ValueError gets the 400 invalid-amount reply; every other
\* request missing a key gets the 500 prediction error.
C8_FailureOutcomes ==
    IsPredict
    => /\ OneOfThreeOutcomes
       /\ (ResourcesReady /\ (~IsObject \/ (MissingKey /\ ~AmountValueError) \/ ArtifactRaised))
             => PredictionErrorReply(resp)
       /\ (ResourcesReady /\ MissingKey /\ AmountValueError)
             => InvalidAmountReply(resp)

C8_Witness ==
    /\ IsPredict
    /\ ResourcesReady
    /\ AmountConverts
    /\ "location" \notin DOMAIN req.body.obj
    /\ PredictionErrorReply(resp)
    /\ memo.set
    /\ memo.req.body.json = "invalid"
    /\ PredictionErrorReply(memo.resp)

----------------------------------------------------------------------------
(* C9 *)

\* C9: once load_resources has returned, RESOURCES_LOADED implies that model
\* and preprocessor are not None; so where GET / serves the form, no
\* POST /predict gets the not-loaded error.
C9_FlagImpliesArtifacts ==
    pc = "serving"
    => /\ RESOURCES_LOADED => (model # None /\ preprocessor # None)
       /\ (RESOURCES_LOADED /\ IsPredict) => ~NotLoadedReply(resp)
       /\ (req.route = "/" /\ resp.body.page = "prediction-form" /\ memo.set)
              => ~NotLoadedReply(memo.resp)

C9_Witness ==
    /\ req.route = "/"
    /\ resp.body.page = "prediction-form"
    /\ memo.set
    /\ memo.resp.status = 200

----------------------------------------------------------------------------
(* C10 *)

\* C10: load_resources loads the preprocessor first and the model second, and
\* returns without raising. A failed preprocessor load leaves the model load
\* untried and both globals None; a failed model load leaves preprocessor
\* holding its artifact, model None and the flag false; the flag is true only
\* after both loads succeeded.
C10_LoadOrder ==
    pc = "serving"
    => /\ ~loadRaised
       /\ Len(loadCalls) >= 1
       /\ loadCalls[1].path = PREPROCESSOR_PATH
       /\ IF Raised(loadCalls[1].out)
          THEN /\ Len(loadCalls) = 1
               /\ atLoad.preprocessor = None
               /\ atLoad.model = None
               /\ ~atLoad.RESOURCES_LOADED
          ELSE /\ Len(loadCalls) = 2
               /\ loadCalls[2].path = MODEL_PATH
               /\ atLoad.preprocessor = loadCalls[1].out.value
               /\ atLoad.preprocessor # None
               /\ IF Raised(loadCalls[2].out)
                  THEN atLoad.model = None /\ ~atLoad.RESOURCES_LOADED
                  ELSE atLoad.model = loadCalls[2].out.value
                       /\ atLoad.model # None
                       /\ atLoad.RESOURCES_LOADED

C10_Witness ==
    /\ pc = "serving"
    /\ Len(loadCalls) = 2
    /\ Raised(loadCalls[2].out)
    /\ preprocessor = Artifact("onehot_strict")
    /\ model = None
    /\ ~RESOURCES_LOADED

====
